---- MODULE Spec2Model ----
(***************************************************************************)
(* Model of the step-generation layer of the algorithm visualizer:         *)
(*   src/src/utils/sortingAlgorithms.js      bubbleSort, mergeSort,        *)
(*                                           quickSort                     *)
(*   src/src/utils/pathfindingAlgorithms.js  bfs, dijkstra, aStar          *)
(*   src/src/utils/graphAlgorithms.js        createGraph, dfs, graphBFS,   *)
(*                                           topologicalSort, detectCycle  *)
(* Every engine function is a pure function from its input to a sequence   *)
(* of step records.  Each is translated loop by loop into a recursive      *)
(* operator; a specification draws the input in Init and one action per    *)
(* exported function applies it and stores the returned sequence           *)
(* (SortSpec, PathSpec, GraphSpec, AnyGraphSpec).  Three specifications    *)
(* follow a call in smaller steps: PathRunSpec the searches loop           *)
(* iteration by loop iteration, CreateSpec the random graph generator      *)
(* choice by choice, SnapshotSpec any engine call push by push.            *)
(*                                                                         *)
(* JavaScript arrays are 0-based: the model keeps the source's 0-based     *)
(* indices in every step and index variable and reads a sequence through   *)
(* At(a, i) == a[i + 1].                                                   *)
(***************************************************************************)
EXTENDS Integers, Sequences, FiniteSets, TLC

VARIABLES
  arr,        \* sorting: the array handed to the engine
  grid,       \* pathfinding: rows of 0 (open) / 1 (obstacle)
  startPos,   \* pathfinding: <<row, col>>
  endPos,     \* pathfinding: <<row, col>>
  graph,      \* graph engine: [nodes |-> <<0, ..., N-1>>, edges |-> sequence of <<u, v>>]
  startNode,  \* graph engine: start node of dfs / graphBFS
  called,     \* name of the engine function that has been called, or "none"
  steps,      \* the step sequence it returned (<<>> when it threw)
  threw,      \* TRUE when the call ended in an exception instead of returning
  run         \* a call followed loop iteration by loop iteration: its position
              \* (pc) and its local variables; Idle when no call is followed

vars == <<arr, grid, startPos, endPos, graph, startNode, called, steps, threw, run>>

----------------------------------------------------------------------------
(* Bounds of the model *)

MaxLen == 4          \* longest input array
MaxVal == 3          \* array values are 1..MaxVal
MaxRows == 3         \* most rows of a grid
MaxCols == 4         \* most columns of a grid
MaxObstacles == 2    \* most obstacle cells of a grid
MaxNodes == 3        \* most nodes of a graph
MaxEdges == 3        \* most edges of a graph

----------------------------------------------------------------------------
(* Generic helpers *)

At(a, i) == a[i + 1]

Range(s) == {s[i] : i \in DOMAIN s}

Last(s) == s[Len(s)]

SeqsUpTo(S, n) == UNION {[1..k -> S] : k \in 0..n}

----------------------------------------------------------------------------
(* Sorting engine: src/src/utils/sortingAlgorithms.js *)

Step(type, indices, array) ==
  [type |-> type, indices |-> indices, array |-> array]

\* [array[i], array[j]] = [array[j], array[i]]
SwapNoop(array, i, j) == [array EXCEPT ![i + 1] = array[j + 1]]
Swap(array, i, j) ==
  [array EXCEPT ![i + 1] = array[j + 1], ![j + 1] = array[i + 1]]

(* ------------------------------ bubbleSort ----------------------------- *)

\* if (array[j] > array[j + 1])
BubbleShouldSwap(array, j) == At(array, j) > At(array, j + 1)

\* for (let j = 0; j < n - i - 1; j++): the exclusive bound of j in pass i
BubbleInnerBoundFull(n, i) == n - 1
BubbleInnerBound(n, i) == n - i - 1

\* Array.from({ length: n - i }, (_, idx) => n - 1 - idx)
SortedIndices(n, i) == [idx \in 1..(n - i) |-> n - 1 - (idx - 1)]

\* the inner loop of pass i, from index j on; st = [array, steps]
RECURSIVE BubbleInner(_, _, _, _)
BubbleInner(st, n, i, j) ==
  IF j < BubbleInnerBound(n, i)
  THEN LET s1 == Append(st.steps, Step("compare", <<j, j + 1>>, st.array))
       IN  IF BubbleShouldSwap(st.array, j)
           THEN LET a2 == Swap(st.array, j, j + 1)
                IN  BubbleInner([array |-> a2,
                                 steps |-> Append(s1, Step("swap", <<j, j + 1>>, a2))],
                                n, i, j + 1)
           ELSE BubbleInner([array |-> st.array, steps |-> s1], n, i, j + 1)
  ELSE st

\* the outer loop, from pass i on
RECURSIVE BubbleOuter(_, _, _)
BubbleOuter(st, n, i) ==
  IF i < n
  THEN LET r == BubbleInner(st, n, i, 0)
       IN  BubbleOuter([array |-> r.array,
                        steps |-> Append(r.steps,
                                         Step("sorted", SortedIndices(n, i), r.array))],
                       n, i + 1)
  ELSE st

bubbleSort(a) == BubbleOuter([array |-> a, steps |-> <<>>], Len(a), 0).steps

(* ------------------------------ mergeSort ------------------------------ *)

\* if (leftArr[i] <= rightArr[j])
MergeTakeLeft(leftArr, rightArr, i, j) == At(leftArr, i) <= At(rightArr, j)

\* array[k] = value; steps.push({type: 'swap', indices: [k], array: [...array]})
\* st.compared records, step by step, the operands of the comparison a
\* compare step precedes (none for a swap step)
MergeWrite(st, k, value) ==
  LET a2 == [st.array EXCEPT ![k + 1] = value]
  IN  [array |-> a2, steps |-> Append(st.steps, Step("swap", <<k>>, a2)),
       compared |-> Append(st.compared, <<>>)]

\* while (i < leftArr.length && j < rightArr.length); m = [st, i, j, k]
RECURSIVE MergeMain(_, _, _, _, _)
MergeMain(m, leftArr, rightArr, left, mid) ==
  IF m.i < Len(leftArr) /\ m.j < Len(rightArr)
  THEN LET s1 == [array |-> m.st.array,
                  steps |-> Append(m.st.steps,
                                   Step("compare", <<left + m.i, mid + 1 + m.j>>,
                                        m.st.array)),
                  compared |-> Append(m.st.compared,
                                      <<At(leftArr, m.i), At(rightArr, m.j)>>)]
       IN  IF MergeTakeLeft(leftArr, rightArr, m.i, m.j)
           THEN MergeMain([st |-> MergeWrite(s1, m.k, At(leftArr, m.i)),
                           i |-> m.i + 1, j |-> m.j, k |-> m.k + 1],
                          leftArr, rightArr, left, mid)
           ELSE MergeMain([st |-> MergeWrite(s1, m.k, At(rightArr, m.j)),
                           i |-> m.i, j |-> m.j + 1, k |-> m.k + 1],
                          leftArr, rightArr, left, mid)
  ELSE m

\* while (i < leftArr.length)
RECURSIVE MergeLeftTail(_, _)
MergeLeftTail(m, leftArr) ==
  IF m.i < Len(leftArr)
  THEN MergeLeftTail([st |-> MergeWrite(m.st, m.k, At(leftArr, m.i)),
                      i |-> m.i + 1, j |-> m.j, k |-> m.k + 1], leftArr)
  ELSE m

\* while (j < rightArr.length)
RECURSIVE MergeRightTail(_, _)
MergeRightTail(m, rightArr) ==
  IF m.j < Len(rightArr)
  THEN MergeRightTail([st |-> MergeWrite(m.st, m.k, At(rightArr, m.j)),
                       i |-> m.i, j |-> m.j + 1, k |-> m.k + 1], rightArr)
  ELSE m

merge(st, left, mid, right) ==
  LET leftArr  == SubSeq(st.array, left + 1, mid + 1)
      rightArr == SubSeq(st.array, mid + 2, right + 1)
      m0 == [st |-> st, i |-> 0, j |-> 0, k |-> left]
      m1 == MergeMain(m0, leftArr, rightArr, left, mid)
      m2 == MergeLeftTail(m1, leftArr)
      m3 == MergeRightTail(m2, rightArr)
  IN  m3.st

RECURSIVE mergeSortHelper(_, _, _)
mergeSortHelper(st, left, right) ==
  IF left < right
  THEN LET mid == (left + right) \div 2
           s1  == mergeSortHelper(st, left, mid)
           s2  == mergeSortHelper(s1, mid + 1, right)
       IN  merge(s2, left, mid, right)
  ELSE st

\* const array = [...arr]; mergeSortHelper(array, 0, array.length - 1)
MergeSortRun(a) ==
  mergeSortHelper([array |-> a, steps |-> <<>>, compared |-> <<>>], 0, Len(a) - 1)

mergeSort(a) == MergeSortRun(a).steps

(* ------------------------------ quickSort ------------------------------ *)

\* if (array[j] < pivot)
QuickShouldMoveGreater(array, j, pivot) == At(array, j) > pivot
QuickShouldMove(array, j, pivot) == At(array, j) < pivot

\* for (let j = low; j < high; j++); p = [array, steps, i]
RECURSIVE PartitionLoop(_, _, _, _)
PartitionLoop(p, j, high, pivot) ==
  IF j < high
  THEN LET s1 == Append(p.steps, Step("compare", <<j, high>>, p.array))
       IN  IF QuickShouldMove(p.array, j, pivot)
           THEN LET i2 == p.i + 1
                    a2 == Swap(p.array, i2, j)
                IN  PartitionLoop([array |-> a2,
                                   steps |-> Append(s1, Step("swap", <<i2, j>>, a2)),
                                   i |-> i2],
                                  j + 1, high, pivot)
           ELSE PartitionLoop([array |-> p.array, steps |-> s1, i |-> p.i],
                              j + 1, high, pivot)
  ELSE p

\* returns [array, steps, pi]
partition(st, low, high) ==
  LET pivot == At(st.array, high)
      p  == PartitionLoop([array |-> st.array, steps |-> st.steps, i |-> low - 1],
                          low, high, pivot)
      a2 == Swap(p.array, p.i + 1, high)
  IN  [array |-> a2,
       steps |-> Append(p.steps, Step("swap", <<p.i + 1, high>>, a2)),
       pi    |-> p.i + 1]

RECURSIVE quickSortHelper(_, _, _)
quickSortHelper(st, low, high) ==
  IF low < high
  THEN LET r  == partition(st, low, high)
           s1 == quickSortHelper([array |-> r.array, steps |-> r.steps], low, r.pi - 1)
       IN  quickSortHelper(s1, r.pi + 1, high)
  ELSE st

quickSort(a) ==
  quickSortHelper([array |-> a, steps |-> <<>>], 0, Len(a) - 1).steps

----------------------------------------------------------------------------
(* Specification of the sorting engine: the input array is drawn in Init,  *)
(* one action per exported function applies it.                            *)

Idle == [pc |-> "idle"]

NoGrid == <<>>
NoPos == <<>>
NoGraph == [nodes |-> <<>>, edges |-> <<>>]

SortInit ==
  /\ arr \in SeqsUpTo(1..MaxVal, MaxLen)
  /\ grid = NoGrid /\ startPos = NoPos /\ endPos = NoPos
  /\ graph = NoGraph /\ startNode = 0
  /\ called = "none"
  /\ steps = <<>>
  /\ threw = FALSE
  /\ run = Idle

CallBubbleSort ==
  /\ called = "none"
  /\ called' = "bubbleSort"
  /\ steps' = bubbleSort(arr)
  /\ threw' = FALSE
  /\ UNCHANGED <<arr, grid, startPos, endPos, graph, startNode, run>>

CallMergeSort ==
  /\ called = "none"
  /\ called' = "mergeSort"
  /\ steps' = mergeSort(arr)
  /\ threw' = FALSE
  /\ UNCHANGED <<arr, grid, startPos, endPos, graph, startNode, run>>

CallQuickSort ==
  /\ called = "none"
  /\ called' = "quickSort"
  /\ steps' = quickSort(arr)
  /\ threw' = FALSE
  /\ UNCHANGED <<arr, grid, startPos, endPos, graph, startNode, run>>

SortNext == CallBubbleSort \/ CallMergeSort \/ CallQuickSort

SortSpec == SortInit /\ [][SortNext]_vars

----------------------------------------------------------------------------
(* Pathfinding engine: src/src/utils/pathfindingAlgorithms.js              *)
(*                                                                         *)
(* A grid is a sequence of rows, each a sequence of 0 (open) / 1           *)
(* (obstacle); a position is <<row, col>>, 0-based as in the source.       *)
(* Move costs are kept as integers in tenths: 1 is Orth = 10 and 1.4 is    *)
(* Diag = 14, and the Manhattan heuristic is scaled by the same factor.    *)
(* JavaScript's Infinity is a number above every distance of the model.    *)

Orth == 10
Diag == 14
Infinity == 1000000

Rows(g) == Len(g)
Cols(g) == Len(g[1])

Cells(g) == {<<r, c>> : r \in 0..(Rows(g) - 1), c \in 0..(Cols(g) - 1)}

\* grid[newRow][newCol]
GridAt(g, pos) == g[pos[1] + 1][pos[2] + 1]

\* JSON.stringify([row, col]): distinct positions give distinct keys
Key(pos) == <<pos[1], pos[2]>>

\* map.set(key, value) on a Map kept as a function over its keys
MapSet(map, key, value) ==
  IF key \in DOMAIN map
  THEN [map EXCEPT ![key] = value]
  ELSE [x \in DOMAIN map \cup {key} |-> IF x = key THEN value ELSE map[x]]

NoMap == [x \in {} |-> x]

\* newRow >= 0 && newRow < rows && newCol >= 0 && newCol < cols
InBounds(g, pos) ==
  /\ pos[1] >= 0 /\ pos[1] < Rows(g)
  /\ pos[2] >= 0 /\ pos[2] < Cols(g)

\* ... && grid[newRow][newCol] === 0
OpenCellIgnoringWalls(g, pos) == InBounds(g, pos)
OpenCell(g, pos) == InBounds(g, pos) /\ GridAt(g, pos) = 0

ExploreStep(pos, visited) ==
  [type |-> "explore", position |-> pos, visited |-> visited]

PathStep(path) == [type |-> "path", path |-> path]

\* current[0] === endPos[0] && current[1] === endPos[1]
IsEndAlways(current, end) == TRUE
IsEnd(current, end) == current = end

\* bfs, dijkstra: let current = endPos
\*                while (parent.get(key(current))) { path.unshift(current); current = parent.get(...) }
RECURSIVE WalkBack(_, _, _)
WalkBack(parent, current, path) ==
  IF Key(current) \in DOMAIN parent
  THEN WalkBack(parent, parent[Key(current)], <<current>> \o path)
  ELSE path

\* ... path.unshift(startPos)
ReconstructPathNoStart(parent, start, end) == WalkBack(parent, end, <<>>)
ReconstructPath(parent, start, end) == <<start>> \o WalkBack(parent, end, <<>>)

(* --------------------------------- bfs --------------------------------- *)

bfsDirections == << <<-1, 0>>, <<1, 0>>, <<0, -1>>, <<0, 1>> >>

\* !visited.has(JSON.stringify([newRow, newCol]))
BfsIsNewAlways(visited, new) == TRUE
BfsIsNew(visited, new) == Key(new) \notin visited

\* the for loop over directions, from direction d on; b = [queue, visited, parent, steps]
RECURSIVE BfsNeighbors(_, _, _, _)
BfsNeighbors(b, g, cur, d) ==
  IF d > Len(bfsDirections) THEN b
  ELSE LET new == <<cur[1] + bfsDirections[d][1], cur[2] + bfsDirections[d][2]>>
       IN  IF OpenCell(g, new) /\ BfsIsNew(b.visited, new)
           THEN BfsNeighbors([queue   |-> Append(b.queue, new),
                              visited |-> b.visited \cup {Key(new)},
                              parent  |-> MapSet(b.parent, Key(new), cur),
                              steps   |-> b.steps],
                             g, cur, d + 1)
           ELSE BfsNeighbors(b, g, cur, d + 1)

\* const [row, col] = queue.shift()
DequeueLast(queue) ==
  [item |-> queue[Len(queue)], rest |-> SubSeq(queue, 1, Len(queue) - 1)]
Dequeue(queue) == [item |-> Head(queue), rest |-> Tail(queue)]

\* one pass through the body of while (queue.length > 0), up to the path
\* reconstruction: [state, found], found when the dequeued cell is the end
BfsIteration(b, g, end) ==
  LET cur == Dequeue(b.queue).item
      b1  == [queue   |-> Dequeue(b.queue).rest,
              visited |-> b.visited,
              parent  |-> b.parent,
              steps   |-> Append(b.steps, ExploreStep(cur, b.visited))]
  IN  IF IsEnd(cur, end)
      THEN [state |-> b1, found |-> TRUE]
      ELSE [state |-> BfsNeighbors(b1, g, cur, 1), found |-> FALSE]

\* while (queue.length > 0)
RECURSIVE BfsLoop(_, _, _, _)
BfsLoop(b, g, start, end) ==
  IF Len(b.queue) = 0 THEN b.steps
  ELSE LET it == BfsIteration(b, g, end)
       IN  IF it.found
           THEN Append(it.state.steps, PathStep(ReconstructPath(b.parent, start, end)))
           ELSE BfsLoop(it.state, g, start, end)

BfsStart(start) ==
  [queue |-> <<start>>, visited |-> {Key(start)}, parent |-> NoMap, steps |-> <<>>]

bfs(g, start, end) == BfsLoop(BfsStart(start), g, start, end)

(* ------------------------------- dijkstra ------------------------------ *)

directions ==
  << <<-1, 0, Orth>>, <<1, 0, Orth>>, <<0, -1, Orth>>, <<0, 1, Orth>>,
     <<-1, -1, Diag>>, <<-1, 1, Diag>>, <<1, -1, Diag>>, <<1, 1, Diag>> >>

\* const [dRow, dCol, cost] of directions: the cost of direction d
DirectionCostUniform(d) == Orth
DirectionCost(d) == directions[d][3]

Null == <<>>

\* the two nested for loops that find the unvisited cell of minimum distance,
\* from cell number n (row-major) on; m = [current, minDistance]
RECURSIVE ScanMin(_, _, _, _, _)
ScanMin(m, n, g, visited, distances) ==
  IF n >= Rows(g) * Cols(g) THEN m
  ELSE LET cell == <<n \div Cols(g), n % Cols(g)>>
       IN  IF Key(cell) \notin visited /\ distances[Key(cell)] < m.minDistance
           THEN ScanMin([current |-> cell, minDistance |-> distances[Key(cell)]],
                        n + 1, g, visited, distances)
           ELSE ScanMin(m, n + 1, g, visited, distances)

\* if (newDist < distances.get(key))
DijkstraImproves(newDist, oldDist) == newDist < oldDist

\* the for loop over directions, from direction d on; s = [visited, distances, parent, steps]
RECURSIVE DijkstraRelax(_, _, _, _)
DijkstraRelax(s, g, cur, d) ==
  IF d > Len(directions) THEN s
  ELSE LET new == <<cur[1] + directions[d][1], cur[2] + directions[d][2]>>
       IN  IF OpenCell(g, new)
           THEN LET newDist == s.distances[Key(cur)] + DirectionCost(d)
                IN  IF DijkstraImproves(newDist, s.distances[Key(new)])
                    THEN DijkstraRelax([visited   |-> s.visited,
                                        distances |-> MapSet(s.distances, Key(new), newDist),
                                        parent    |-> MapSet(s.parent, Key(new), cur),
                                        steps     |-> s.steps],
                                       g, cur, d + 1)
                    ELSE DijkstraRelax(s, g, cur, d + 1)
           ELSE DijkstraRelax(s, g, cur, d + 1)

\* visited.add(JSON.stringify(current))
DijkstraMarkVisitedForgotten(visited, current) == visited
DijkstraMarkVisited(visited, current) == visited \cup {Key(current)}

\* one pass through the body of while (visited.size < rows * cols), up to the
\* path reconstruction: [state, exit], exit "break" when no cell is left to
\* pick, "found" when the picked cell is the end, "none" otherwise
DijkstraIteration(s, g, end) ==
  LET m == ScanMin([current |-> Null, minDistance |-> Infinity], 0, g,
                   s.visited, s.distances)
  IN  IF m.current = Null \/ m.minDistance = Infinity
      THEN [state |-> s, exit |-> "break"]
      ELSE LET v1 == DijkstraMarkVisited(s.visited, m.current)
               s1 == [visited   |-> v1,
                      distances |-> s.distances,
                      parent    |-> s.parent,
                      steps     |-> Append(s.steps, ExploreStep(m.current, v1))]
           IN  IF IsEnd(m.current, end)
               THEN [state |-> s1, exit |-> "found"]
               ELSE [state |-> DijkstraRelax(s1, g, m.current, 1), exit |-> "none"]

\* while (visited.size < rows * cols)
RECURSIVE DijkstraLoop(_, _, _, _)
DijkstraLoop(s, g, start, end) ==
  IF Cardinality(s.visited) >= Rows(g) * Cols(g) THEN s.steps
  ELSE LET it == DijkstraIteration(s, g, end)
       IN  CASE it.exit = "break" -> s.steps
             [] it.exit = "found" ->
                  Append(it.state.steps, PathStep(ReconstructPath(s.parent, start, end)))
             [] OTHER -> DijkstraLoop(it.state, g, start, end)

DijkstraStart(g, start) ==
  [visited   |-> {},
   distances |-> MapSet([c \in Cells(g) |-> Infinity], Key(start), 0),
   parent    |-> NoMap,
   steps     |-> <<>>]

dijkstra(g, start, end) == DijkstraLoop(DijkstraStart(g, start), g, start, end)

(* -------------------------------- aStar -------------------------------- *)

Abs(x) == IF x < 0 THEN -x ELSE x

\* Math.abs(pos[0] - endPos[0]) + Math.abs(pos[1] - endPos[1]), in tenths
heuristic(pos, end) == Orth * (Abs(pos[1] - end[1]) + Abs(pos[2] - end[2]))

\* the for loop that finds the open cell of lowest fScore, from index i
\* (0-based) on; m = [current, currentIndex, lowestF]
RECURSIVE LowestF(_, _, _, _)
LowestF(m, i, openSet, fScore) ==
  IF i >= Len(openSet) THEN m
  ELSE LET f == fScore[Key(At(openSet, i))]
       IN  IF f < m.lowestF
           THEN LowestF([current |-> At(openSet, i), currentIndex |-> i, lowestF |-> f],
                        i + 1, openSet, fScore)
           ELSE LowestF(m, i + 1, openSet, fScore)

\* openSet.splice(currentIndex, 1)
Splice(openSet, index) ==
  SubSeq(openSet, 1, index) \o SubSeq(openSet, index + 2, Len(openSet))

\* openSet.some((pos) => pos[0] === neighbor[0] && pos[1] === neighbor[1])
InOpenSet(openSet, pos) == \E i \in DOMAIN openSet : openSet[i] = pos

\* aStar: const path = [endPos]
\*        while (parent.get(key(pos))) { pos = parent.get(key(pos)); path.unshift(pos) }
RECURSIVE AStarWalkBack(_, _, _)
AStarWalkBack(parent, pos, path) ==
  IF Key(pos) \in DOMAIN parent
  THEN AStarWalkBack(parent, parent[Key(pos)], <<parent[Key(pos)]>> \o path)
  ELSE path

\* the for loop over directions, from direction d on;
\* s = [openSet, visited, gScore, fScore, parent, steps]
RECURSIVE AStarNeighbors(_, _, _, _, _)
AStarNeighbors(s, g, cur, end, d) ==
  IF d > Len(directions) THEN s
  ELSE LET neighbor == <<cur[1] + directions[d][1], cur[2] + directions[d][2]>>
       IN  IF OpenCell(g, neighbor) /\ Key(neighbor) \notin s.visited
           THEN LET tentativeGScore == s.gScore[Key(cur)] + DirectionCost(d)
                IN  IF tentativeGScore < s.gScore[Key(neighbor)]
                    THEN AStarNeighbors(
                           [openSet |-> IF InOpenSet(s.openSet, neighbor)
                                        THEN s.openSet
                                        ELSE Append(s.openSet, neighbor),
                            visited |-> s.visited,
                            gScore  |-> MapSet(s.gScore, Key(neighbor), tentativeGScore),
                            fScore  |-> MapSet(s.fScore, Key(neighbor),
                                               tentativeGScore + heuristic(neighbor, end)),
                            parent  |-> MapSet(s.parent, Key(neighbor), cur),
                            steps   |-> s.steps],
                           g, cur, end, d + 1)
                    ELSE AStarNeighbors(s, g, cur, end, d + 1)
           ELSE AStarNeighbors(s, g, cur, end, d + 1)

\* one pass through the body of while (openSet.length > 0), up to the path
\* reconstruction: [state, found], found when the cell of lowest fScore is
\* the end (it is then neither spliced out nor explored)
AStarIteration(s, g, end) ==
  LET m == LowestF([current |-> At(s.openSet, 0), currentIndex |-> 0,
                    lowestF |-> s.fScore[Key(At(s.openSet, 0))]],
                   1, s.openSet, s.fScore)
  IN  IF IsEnd(m.current, end)
      THEN [state |-> s, found |-> TRUE]
      ELSE LET v1 == s.visited \cup {Key(m.current)}
           IN  [state |-> AStarNeighbors([openSet |-> Splice(s.openSet, m.currentIndex),
                                          visited |-> v1,
                                          gScore  |-> s.gScore,
                                          fScore  |-> s.fScore,
                                          parent  |-> s.parent,
                                          steps   |-> Append(s.steps,
                                                             ExploreStep(m.current, v1))],
                                         g, m.current, end, 1),
                found |-> FALSE]

\* while (openSet.length > 0)
RECURSIVE AStarLoop(_, _, _)
AStarLoop(s, g, end) ==
  IF Len(s.openSet) = 0 THEN s.steps
  ELSE LET it == AStarIteration(s, g, end)
       IN  IF it.found
           THEN Append(s.steps, PathStep(AStarWalkBack(s.parent, end, <<end>>)))
           ELSE AStarLoop(it.state, g, end)

AStarStart(g, start, end) ==
  [openSet |-> <<start>>,
   visited |-> {},
   gScore  |-> MapSet([c \in Cells(g) |-> Infinity], Key(start), 0),
   fScore  |-> MapSet([c \in Cells(g) |-> Infinity], Key(start), heuristic(start, end)),
   parent  |-> NoMap,
   steps   |-> <<>>]

aStar(g, start, end) == AStarLoop(AStarStart(g, start, end), g, end)

----------------------------------------------------------------------------
(* Specification of the pathfinding engine: the grid, start and end are    *)
(* drawn in Init (start and end open corner cells, as createGrid keeps     *)
(* them), one action per exported function applies it.                     *)

MakeGrid(rows, cols, obstacles) ==
  [r \in 1..rows |-> [c \in 1..cols |-> IF <<r - 1, c - 1>> \in obstacles THEN 1 ELSE 0]]

AllCells(rows, cols) == {<<r, c>> : r \in 0..(rows - 1), c \in 0..(cols - 1)}

\* the visualizer searches from [0, 0] to the corner [rows - 1, cols - 1]; the
\* model starts at [0, 0] too and draws the end from all four corners, which
\* adds the searches along one row or column and the search with start = end
Corners(rows, cols) == {<<r, c>> : r \in {0, rows - 1}, c \in {0, cols - 1}}

PathInit ==
  /\ \E rows \in 1..MaxRows, cols \in 1..MaxCols :
       \E obstacles \in SUBSET AllCells(rows, cols) :
         /\ Cardinality(obstacles) <= MaxObstacles
         /\ grid = MakeGrid(rows, cols, obstacles)
         /\ startPos = <<0, 0>>
         /\ startPos \notin obstacles
         /\ endPos \in Corners(rows, cols) \ obstacles
  /\ arr = <<>>
  /\ graph = NoGraph /\ startNode = 0
  /\ called = "none"
  /\ steps = <<>>
  /\ threw = FALSE
  /\ run = Idle

CallBfs ==
  /\ called = "none"
  /\ called' = "bfs"
  /\ steps' = bfs(grid, startPos, endPos)
  /\ threw' = FALSE
  /\ UNCHANGED <<arr, grid, startPos, endPos, graph, startNode, run>>

CallDijkstra ==
  /\ called = "none"
  /\ called' = "dijkstra"
  /\ steps' = dijkstra(grid, startPos, endPos)
  /\ threw' = FALSE
  /\ UNCHANGED <<arr, grid, startPos, endPos, graph, startNode, run>>

CallAStar ==
  /\ called = "none"
  /\ called' = "aStar"
  /\ steps' = aStar(grid, startPos, endPos)
  /\ threw' = FALSE
  /\ UNCHANGED <<arr, grid, startPos, endPos, graph, startNode, run>>

PathNext == CallBfs \/ CallDijkstra \/ CallAStar

PathSpec == PathInit /\ [][PathNext]_vars

----------------------------------------------------------------------------
(* The searches followed loop iteration by loop iteration.  The grid, and   *)
(* any two of its cells as start and end (obstacle cells included: the     *)
(* engine does not validate them), are drawn in Init.  A Start action      *)
(* enters the function and runs it up to its main loop; an Iterate action  *)
(* tests the loop condition and runs the body once; a Hop action tests     *)
(* the condition of the path reconstruction loop and runs its body once.   *)
(* The caller receives the steps when the function returns (pc = "done").  *)

MaxRunRows == 2          \* most rows of a grid of a search followed step by step
MaxRunCols == 3          \* most columns of such a grid
MaxRunObstacles == 1     \* most obstacle cells of such a grid

PathRunInit ==
  /\ \E rows \in 1..MaxRunRows, cols \in 1..MaxRunCols :
       \E obstacles \in SUBSET AllCells(rows, cols) :
         /\ Cardinality(obstacles) <= MaxRunObstacles
         /\ grid = MakeGrid(rows, cols, obstacles)
         /\ startPos \in AllCells(rows, cols)
         /\ endPos \in AllCells(rows, cols)
  /\ arr = <<>>
  /\ graph = NoGraph /\ startNode = 0
  /\ called = "none"
  /\ steps = <<>>
  /\ threw = FALSE
  /\ run = Idle

Return(result) ==
  /\ run' = [pc |-> "done"]
  /\ steps' = result

StartBfs ==
  /\ called = "none"
  /\ called' = "bfs"
  /\ run' = [pc |-> "loop", s |-> BfsStart(startPos)]
  /\ UNCHANGED <<arr, grid, startPos, endPos, graph, startNode, steps, threw>>

\* while (queue.length > 0) { ... }  return steps
BfsIterate ==
  /\ called = "bfs" /\ run.pc = "loop"
  /\ IF Len(run.s.queue) = 0
     THEN Return(run.s.steps)
     ELSE LET it == BfsIteration(run.s, grid, endPos)
          IN  /\ run' = IF it.found
                        THEN [pc |-> "walk", s |-> it.state, current |-> endPos,
                              path |-> <<>>]
                        ELSE [pc |-> "loop", s |-> it.state]
              /\ UNCHANGED steps
  /\ UNCHANGED <<arr, grid, startPos, endPos, graph, startNode, called, threw>>

StartDijkstra ==
  /\ called = "none"
  /\ called' = "dijkstra"
  /\ run' = [pc |-> "loop", s |-> DijkstraStart(grid, startPos)]
  /\ UNCHANGED <<arr, grid, startPos, endPos, graph, startNode, steps, threw>>

\* while (visited.size < rows * cols) { ... }  return steps
DijkstraIterate ==
  /\ called = "dijkstra" /\ run.pc = "loop"
  /\ IF Cardinality(run.s.visited) >= Rows(grid) * Cols(grid)
     THEN Return(run.s.steps)
     ELSE LET it == DijkstraIteration(run.s, grid, endPos)
          IN  CASE it.exit = "break" -> Return(run.s.steps)
                [] it.exit = "found" ->
                     /\ run' = [pc |-> "walk", s |-> it.state, current |-> endPos,
                                path |-> <<>>]
                     /\ UNCHANGED steps
                [] OTHER ->
                     /\ run' = [pc |-> "loop", s |-> it.state]
                     /\ UNCHANGED steps
  /\ UNCHANGED <<arr, grid, startPos, endPos, graph, startNode, called, threw>>

\* bfs, dijkstra: while (parent.get(key(current)))
\*                  { path.unshift(current); current = parent.get(key(current)) }
\*                path.unshift(startPos); steps.push({ type: 'path', path }); return steps
ReconstructHop ==
  /\ called \in {"bfs", "dijkstra"} /\ run.pc = "walk"
  /\ IF Key(run.current) \in DOMAIN run.s.parent
     THEN /\ run' = [run EXCEPT !.path = <<run.current>> \o @,
                                !.current = run.s.parent[Key(run.current)]]
          /\ UNCHANGED steps
     ELSE Return(Append(run.s.steps, PathStep(<<startPos>> \o run.path)))
  /\ UNCHANGED <<arr, grid, startPos, endPos, graph, startNode, called, threw>>

StartAStar ==
  /\ called = "none"
  /\ called' = "aStar"
  /\ run' = [pc |-> "loop", s |-> AStarStart(grid, startPos, endPos)]
  /\ UNCHANGED <<arr, grid, startPos, endPos, graph, startNode, steps, threw>>

\* while (openSet.length > 0) { ... }  return steps
AStarIterate ==
  /\ called = "aStar" /\ run.pc = "loop"
  /\ IF Len(run.s.openSet) = 0
     THEN Return(run.s.steps)
     ELSE LET it == AStarIteration(run.s, grid, endPos)
          IN  /\ run' = IF it.found
                        THEN [pc |-> "walk", s |-> it.state, current |-> endPos,
                              path |-> <<endPos>>]
                        ELSE [pc |-> "loop", s |-> it.state]
              /\ UNCHANGED steps
  /\ UNCHANGED <<arr, grid, startPos, endPos, graph, startNode, called, threw>>

\* aStar: while (parent.get(key(pos))) { pos = parent.get(key(pos)); path.unshift(pos) }
\*        steps.push({ type: 'path', path }); return steps
AStarHop ==
  /\ called = "aStar" /\ run.pc = "walk"
  /\ IF Key(run.current) \in DOMAIN run.s.parent
     THEN /\ run' = [run EXCEPT !.path = <<run.s.parent[Key(run.current)]>> \o @,
                                !.current = run.s.parent[Key(run.current)]]
          /\ UNCHANGED steps
     ELSE Return(Append(run.s.steps, PathStep(run.path)))
  /\ UNCHANGED <<arr, grid, startPos, endPos, graph, startNode, called, threw>>

PathRunNext ==
  \/ StartBfs \/ BfsIterate
  \/ StartDijkstra \/ DijkstraIterate
  \/ ReconstructHop
  \/ StartAStar \/ AStarIterate \/ AStarHop

PathRunSpec == PathRunInit /\ [][PathRunNext]_vars

----------------------------------------------------------------------------
(* Graph engine: src/src/utils/graphAlgorithms.js                          *)
(*                                                                         *)
(* A graph is [nodes, edges]: nodes is the sequence of node ids 0..N-1     *)
(* (only its length is read), edges a sequence of pairs <<u, v>>.  An      *)
(* adjacency list is a function from 0..N-1 to sequences of node ids.      *)
(* Reading adj[node] for a node the list does not hold gives undefined,    *)
(* and iterating or spreading undefined throws a TypeError: the walks      *)
(* carry a field threw for it.                                             *)

\* adj[u].push(v) for every edge, from edge number k on
RECURSIVE PushEdges(_, _, _, _)
PushEdges(adj, edges, k, undirected) ==
  IF k > Len(edges) THEN adj
  ELSE LET u  == edges[k][1]
           v  == edges[k][2]
           a1 == [adj EXCEPT ![u] = Append(@, v)]
           a2 == IF undirected THEN [a1 EXCEPT ![v] = Append(@, u)] ELSE a1
       IN  PushEdges(a2, edges, k + 1, undirected)

EmptyAdj(nodeCount) == [i \in 0..(nodeCount - 1) |-> <<>>]

buildAdjacencyList(nodeCount, edges) ==
  PushEdges(EmptyAdj(nodeCount), edges, 1, TRUE)

\* the adjacency list topologicalSort and detectCycle build: u -> v only
DirectedAdjacency(g) == PushEdges(EmptyAdj(Len(g.nodes)), g.edges, 1, FALSE)

VisitStep(node, visited, visitOrder) ==
  [type |-> "visit", node |-> node, visited |-> visited, visitOrder |-> visitOrder]

\* [...adj[node]].reverse()
ReverseForgotten(s) == s
Reverse(s) == [i \in 1..Len(s) |-> s[Len(s) + 1 - i]]

(* --------------------------------- dfs --------------------------------- *)

\* for (const neighbor of neighbors) if (!visited.has(neighbor)) stack.push(neighbor)
RECURSIVE DfsPush(_, _, _, _)
DfsPush(stack, visited, neighbors, k) ==
  IF k > Len(neighbors) THEN stack
  ELSE DfsPush(IF neighbors[k] \notin visited THEN Append(stack, neighbors[k]) ELSE stack,
               visited, neighbors, k + 1)

\* if (!visited.has(node))
DfsIsNewAlways(visited, node) == TRUE
DfsIsNew(visited, node) == node \notin visited

\* while (stack.length > 0); s = [stack, visited, visitOrder, steps, threw]
RECURSIVE DfsLoop(_, _)
DfsLoop(s, g) ==
  IF Len(s.stack) = 0 THEN s
  ELSE LET node == s.stack[Len(s.stack)]
           rest == SubSeq(s.stack, 1, Len(s.stack) - 1)
       IN  IF DfsIsNew(s.visited, node)
           THEN LET v1  == s.visited \cup {node}
                    o1  == Append(s.visitOrder, node)
                    s1  == Append(s.steps, VisitStep(node, v1, o1))
                    adj == buildAdjacencyList(Len(g.nodes), g.edges)
                IN  IF node \notin DOMAIN adj
                    THEN [stack |-> rest, visited |-> v1, visitOrder |-> o1,
                          steps |-> s1, threw |-> TRUE]
                    ELSE DfsLoop([stack      |-> DfsPush(rest, v1, Reverse(adj[node]), 1),
                                  visited    |-> v1,
                                  visitOrder |-> o1,
                                  steps      |-> s1,
                                  threw      |-> FALSE],
                                 g)
           ELSE DfsLoop([s EXCEPT !.stack = rest], g)

dfs(g, start) ==
  DfsLoop([stack |-> <<start>>, visited |-> {}, visitOrder |-> <<>>,
           steps |-> <<>>, threw |-> FALSE], g)

(* ------------------------------- graphBFS ------------------------------ *)

\* for (const neighbor of adj[node]) if (!visited.has(neighbor)) { add; push }
RECURSIVE GraphBfsNeighbors(_, _, _)
GraphBfsNeighbors(s, neighbors, k) ==
  IF k > Len(neighbors) THEN s
  ELSE IF neighbors[k] \notin s.visited
       THEN GraphBfsNeighbors([s EXCEPT !.visited = @ \cup {neighbors[k]},
                                        !.queue = Append(@, neighbors[k])],
                              neighbors, k + 1)
       ELSE GraphBfsNeighbors(s, neighbors, k + 1)

\* while (queue.length > 0); s = [queue, visited, visitOrder, steps, threw]
RECURSIVE GraphBfsLoop(_, _)
GraphBfsLoop(s, adj) ==
  IF Len(s.queue) = 0 THEN s
  ELSE LET node == Head(s.queue)
           o1   == Append(s.visitOrder, node)
           s1   == [queue      |-> Tail(s.queue),
                    visited    |-> s.visited,
                    visitOrder |-> o1,
                    steps      |-> Append(s.steps, VisitStep(node, s.visited, o1)),
                    threw      |-> FALSE]
       IN  IF node \notin DOMAIN adj
           THEN [s1 EXCEPT !.threw = TRUE]
           ELSE GraphBfsLoop(GraphBfsNeighbors(s1, adj[node], 1), adj)

graphBFS(g, start) ==
  GraphBfsLoop([queue |-> <<start>>, visited |-> {start}, visitOrder |-> <<>>,
                steps |-> <<>>, threw |-> FALSE],
               buildAdjacencyList(Len(g.nodes), g.edges))

(* ---------------------------- topologicalSort -------------------------- *)

TopoStep(type, node, visited, result) ==
  [type |-> type, node |-> node, visited |-> visited, result |-> result]

\* result.unshift(node)
TopoAddResultAtEnd(result, node) == Append(result, node)
TopoAddResult(result, node) == <<node>> \o result

\* dfsHelper(node, adj); s = [visited, result, steps]
RECURSIVE TopoHelper(_, _, _)
RECURSIVE TopoNeighbors(_, _, _)

\* for (const neighbor of adj[node]) if (!visited.has(neighbor)) dfsHelper(neighbor, adj)
TopoNeighbors(s, neighbors, adj) ==
  IF neighbors = <<>> THEN s
  ELSE TopoNeighbors(IF Head(neighbors) \notin s.visited
                     THEN TopoHelper(s, Head(neighbors), adj)
                     ELSE s,
                     Tail(neighbors), adj)

TopoHelper(s, node, adj) ==
  LET v1 == s.visited \cup {node}
      s1 == [visited |-> v1,
             result  |-> s.result,
             steps   |-> Append(s.steps, TopoStep("visit", node, v1, s.result))]
      s2 == TopoNeighbors(s1, adj[node], adj)
      r2 == TopoAddResult(s2.result, node)
  IN  [visited |-> s2.visited,
       result  |-> r2,
       steps   |-> Append(s2.steps, TopoStep("finish", node, s2.visited, r2))]

\* if (!visited.has(i))
TopoIsRootAlways(visited, i) == TRUE
TopoIsRoot(visited, i) == i \notin visited

\* for (let i = 0; i < graph.nodes.length; i++) if (!visited.has(i)) dfsHelper(i, adj)
RECURSIVE TopoRoots(_, _, _, _)
TopoRoots(s, i, n, adj) ==
  IF i >= n THEN s
  ELSE TopoRoots(IF TopoIsRoot(s.visited, i) THEN TopoHelper(s, i, adj) ELSE s,
                 i + 1, n, adj)

topologicalSort(g) ==
  TopoRoots([visited |-> {}, result |-> <<>>, steps |-> <<>>], 0, Len(g.nodes),
            DirectedAdjacency(g)).steps

(* ------------------------------ detectCycle ---------------------------- *)

\* states: 0 unvisited, 1 visiting, 2 visited
InitialStates(nodeCount) == [i \in 0..(nodeCount - 1) |-> 0]

DetectVisitStep(node) ==
  [type |-> "visit", node |-> node, state |-> "visiting", hasCycle |-> FALSE]

DetectCycleStep(neighbor) == [type |-> "cycle", node |-> neighbor, hasCycle |-> TRUE]

DetectFinishStepFalse(node, hasCycle) ==
  [type |-> "finish", node |-> node, hasCycle |-> FALSE]
DetectFinishStep(node, hasCycle) ==
  [type |-> "finish", node |-> node, hasCycle |-> hasCycle]

\* if (states[neighbor] === 1)
DetectIsBackEdgeAnyMarked(states, neighbor) == states[neighbor] # 0
DetectIsBackEdge(states, neighbor) == states[neighbor] = 1

\* dfsHelper(node, adj); s = [states, hasCycle, steps]
RECURSIVE DetectHelper(_, _, _)
RECURSIVE DetectNeighbors(_, _, _)

\* for (const neighbor of adj[node])
\*   if (states[neighbor] === 1) { hasCycle = true; push cycle step }
\*   else if (states[neighbor] === 0) dfsHelper(neighbor, adj)
DetectNeighbors(s, neighbors, adj) ==
  IF neighbors = <<>> THEN s
  ELSE LET neighbor == Head(neighbors)
       IN  DetectNeighbors(
             IF DetectIsBackEdge(s.states, neighbor)
             THEN [states   |-> s.states,
                   hasCycle |-> TRUE,
                   steps    |-> Append(s.steps, DetectCycleStep(neighbor))]
             ELSE IF s.states[neighbor] = 0
                  THEN DetectHelper(s, neighbor, adj)
                  ELSE s,
             Tail(neighbors), adj)

DetectHelper(s, node, adj) ==
  LET s1 == [states   |-> [s.states EXCEPT ![node] = 1],
             hasCycle |-> s.hasCycle,
             steps    |-> Append(s.steps, DetectVisitStep(node))]
      s2 == DetectNeighbors(s1, adj[node], adj)
  IN  [states   |-> [s2.states EXCEPT ![node] = 2],
       hasCycle |-> s2.hasCycle,
       steps    |-> Append(s2.steps, DetectFinishStep(node, s2.hasCycle))]

\* for (let i = 0; i < graph.nodes.length; i++) if (states[i] === 0) dfsHelper(i, adj)
RECURSIVE DetectRoots(_, _, _, _)
DetectRoots(s, i, n, adj) ==
  IF i >= n THEN s
  ELSE DetectRoots(IF s.states[i] = 0 THEN DetectHelper(s, i, adj) ELSE s, i + 1, n, adj)

detectCycle(g) ==
  DetectRoots([states |-> InitialStates(Len(g.nodes)), hasCycle |-> FALSE, steps |-> <<>>],
              0, Len(g.nodes), DirectedAdjacency(g)).steps

----------------------------------------------------------------------------
(* Specification of the graph engine: the graph is drawn in Init (any      *)
(* sequence of edges between its nodes, self-loops and repeated edges      *)
(* included); the traversals start at node 0, as in the visualizer.  The   *)
(* set of graphs is closed under renaming the nodes and the traversals     *)
(* read the node ids only through the adjacency lists, so starting at 0    *)
(* stands for starting at any node.                                        *)

NodeIds(n) == [i \in 1..n |-> i - 1]

GraphInit ==
  /\ \E n \in 1..MaxNodes :
       \E edges \in SeqsUpTo((0..(n - 1)) \X (0..(n - 1)), MaxEdges) :
         graph = [nodes |-> NodeIds(n), edges |-> edges]
  /\ startNode = 0
  /\ arr = <<>>
  /\ grid = NoGrid /\ startPos = NoPos /\ endPos = NoPos
  /\ called = "none"
  /\ steps = <<>>
  /\ threw = FALSE
  /\ run = Idle

\* the caller receives the step sequence, or the exception and no sequence
Returned(r) == IF r.threw THEN <<>> ELSE r.steps

CallDfs ==
  /\ called = "none"
  /\ called' = "dfs"
  /\ LET r == dfs(graph, startNode)
     IN  steps' = Returned(r) /\ threw' = r.threw
  /\ UNCHANGED <<arr, grid, startPos, endPos, graph, startNode, run>>

CallGraphBFS ==
  /\ called = "none"
  /\ called' = "graphBFS"
  /\ LET r == graphBFS(graph, startNode)
     IN  steps' = Returned(r) /\ threw' = r.threw
  /\ UNCHANGED <<arr, grid, startPos, endPos, graph, startNode, run>>

CallTopologicalSort ==
  /\ called = "none"
  /\ called' = "topologicalSort"
  /\ steps' = topologicalSort(graph)
  /\ threw' = FALSE
  /\ UNCHANGED <<arr, grid, startPos, endPos, graph, startNode, run>>

CallDetectCycle ==
  /\ called = "none"
  /\ called' = "detectCycle"
  /\ steps' = detectCycle(graph)
  /\ threw' = FALSE
  /\ UNCHANGED <<arr, grid, startPos, endPos, graph, startNode, run>>

GraphNext == CallDfs \/ CallGraphBFS \/ CallTopologicalSort \/ CallDetectCycle

GraphSpec == GraphInit /\ [][GraphNext]_vars

\* The engine as a library: the callers of the exported functions may also
\* hand them the empty graph { nodes: [], edges: [] }.
AnyGraphInit ==
  /\ \E n \in 0..MaxNodes :
       \E edges \in SeqsUpTo((0..(n - 1)) \X (0..(n - 1)), MaxEdges) :
         graph = [nodes |-> NodeIds(n), edges |-> edges]
  /\ startNode = 0
  /\ arr = <<>>
  /\ grid = NoGrid /\ startPos = NoPos /\ endPos = NoPos
  /\ called = "none"
  /\ steps = <<>>
  /\ threw = FALSE
  /\ run = Idle

AnyGraphSpec == AnyGraphInit /\ [][GraphNext]_vars

----------------------------------------------------------------------------
(* createGraph followed loop iteration by loop iteration.  Every call of   *)
(* Math.random() is a choice: Math.floor(Math.random() * k) is any of      *)
(* 0..k-1.  Only the ids of the nodes are kept (the engine reads           *)
(* graph.nodes.length and nothing else of a node).                         *)

MaxCreateNodes == 3      \* largest nodeCount handed to createGraph

CreateInit ==
  /\ graph = NoGraph /\ startNode = 0
  /\ arr = <<>>
  /\ grid = NoGrid /\ startPos = NoPos /\ endPos = NoPos
  /\ called = "none"
  /\ steps = <<>>
  /\ threw = FALSE
  /\ run = Idle

\* createGraph(nodeCount): nodes, edges = [], visited = new Set(), i = 0
StartCreateGraph ==
  /\ called = "none"
  /\ called' = "createGraph"
  /\ \E nodeCount \in 1..MaxCreateNodes :
       run' = [pc |-> "tree", nodeCount |-> nodeCount, i |-> 0, j |-> 0,
               connectionCount |-> 0, edges |-> <<>>, visited |-> {}]
  /\ UNCHANGED <<arr, grid, startPos, endPos, graph, startNode, steps, threw>>

\* i + 1 + Math.floor(Math.random() * (nodeCount - i - 1))
TreeTargetsAny(nodeCount, i) == 0..(nodeCount - 1)
TreeTargets(nodeCount, i) == {i + 1 + r : r \in 0..(nodeCount - i - 2)}

\* for (let i = 0; i < nodeCount - 1; i++) { const j = ...; edges.push([i, j]) }
SpanningTreeIterate ==
  /\ called = "createGraph" /\ run.pc = "tree"
  /\ IF run.i < run.nodeCount - 1
     THEN \E j \in TreeTargets(run.nodeCount, run.i) :
            run' = [run EXCEPT !.edges = Append(@, <<run.i, j>>), !.i = @ + 1]
     ELSE run' = [run EXCEPT !.pc = "extra", !.i = 0]
  /\ UNCHANGED <<arr, grid, startPos, endPos, graph, startNode, called, steps, threw>>

\* Math.floor(Math.random() * 3) + 1
ConnectionCounts == 1..3

\* Math.floor(Math.random() * nodeCount)
RandomTargets(nodeCount) == 0..(nodeCount - 1)

\* [Math.min(i, target), Math.max(i, target)].join(',')
EdgeKey(i, target) ==
  <<IF i < target THEN i ELSE target, IF i < target THEN target ELSE i>>

\* for (let i = 0; i < nodeCount; i++) { const connectionCount = ...; for ... }
\* return { nodes, edges }
ExtraEdgesOuter ==
  /\ called = "createGraph" /\ run.pc = "extra"
  /\ IF run.i < run.nodeCount
     THEN /\ \E connectionCount \in ConnectionCounts :
               run' = [run EXCEPT !.pc = "extraInner", !.j = 0,
                                  !.connectionCount = connectionCount]
          /\ UNCHANGED graph
     ELSE /\ run' = [pc |-> "done"]
          /\ graph' = [nodes |-> NodeIds(run.nodeCount), edges |-> run.edges]
  /\ UNCHANGED <<arr, grid, startPos, endPos, startNode, called, steps, threw>>

\* for (let j = 0; j < connectionCount; j++) {
\*   const target = ...
\*   if (target !== i) { if (!visited.has(key)) { visited.add(key); edges.push([i, target]) } } }
ExtraEdgesInner ==
  /\ called = "createGraph" /\ run.pc = "extraInner"
  /\ IF run.j < run.connectionCount
     THEN \E target \in RandomTargets(run.nodeCount) :
            run' = IF target # run.i /\ EdgeKey(run.i, target) \notin run.visited
                   THEN [run EXCEPT !.visited = @ \cup {EdgeKey(run.i, target)},
                                    !.edges = Append(@, <<run.i, target>>),
                                    !.j = @ + 1]
                   ELSE [run EXCEPT !.j = @ + 1]
     ELSE run' = [run EXCEPT !.pc = "extra", !.i = @ + 1]
  /\ UNCHANGED <<arr, grid, startPos, endPos, graph, startNode, called, steps, threw>>

CreateNext ==
  StartCreateGraph \/ SpanningTreeIterate \/ ExtraEdgesOuter \/ ExtraEdgesInner

CreateSpec == CreateInit /\ [][CreateNext]_vars

----------------------------------------------------------------------------
(* Ownership of the snapshots.  A step is pushed with collection fields    *)
(* (array, visited, visitOrder, result, path); each is either a new        *)
(* object built for the step ([...array], new Set(visited),                *)
(* [...visitOrder], [...result]) or the very object the algorithm works    *)
(* on (path: path).  A call is followed from one push to the next: work    *)
(* holds the contents of the algorithm's working structures, out the       *)
(* steps pushed so far, each with the contents of the fields it owns and   *)
(* the names of the fields it shares with the working structures, whose    *)
(* contents are read through work.  Between two pushes the algorithm       *)
(* brings its working structures to the contents the next step's           *)
(* snapshot expressions read.                                              *)

MaxSnapLen == 3       \* longest input array of a call followed push by push
MaxSnapNodes == 3     \* most nodes of a graph of such a call
MaxSnapEdges == 2     \* most edges of a graph of such a call

CollectionFields == {"array", "visited", "visitOrder", "result", "path"}

\* the collection fields of a step of the given type that are the working
\* structure itself and not a copy of it
SharedFieldsAll(type) == CollectionFields
SharedFields(type) == IF type = "path" THEN {"path"} ELSE {}

\* steps.push({ ... }): the step as stored in the steps array
Pushed(step) ==
  [owned  |-> step,
   shared |-> SharedFields(step.type) \cap DOMAIN step]

\* reading a stored step: a shared field shows the working structure
Contents(work, pushed) ==
  [f \in DOMAIN pushed.owned |->
     IF f \in pushed.shared THEN work[f] ELSE pushed.owned[f]]

SnapshotInit ==
  /\ \/ /\ arr \in SeqsUpTo(1..MaxVal, MaxSnapLen)
        /\ grid = NoGrid /\ startPos = NoPos /\ endPos = NoPos
        /\ graph = NoGraph
     \/ /\ arr = <<>>
        /\ \E rows \in 1..MaxRunRows, cols \in 1..MaxRunCols :
             \E obstacles \in SUBSET AllCells(rows, cols) :
               /\ Cardinality(obstacles) <= MaxRunObstacles
               /\ grid = MakeGrid(rows, cols, obstacles)
               /\ startPos = <<0, 0>>
               /\ startPos \notin obstacles
               /\ endPos \in Corners(rows, cols) \ obstacles
        /\ graph = NoGraph
     \/ /\ arr = <<>>
        /\ grid = NoGrid /\ startPos = NoPos /\ endPos = NoPos
        /\ \E n \in 1..MaxSnapNodes :
             \E edges \in SeqsUpTo((0..(n - 1)) \X (0..(n - 1)), MaxSnapEdges) :
               graph = [nodes |-> NodeIds(n), edges |-> edges]
  /\ startNode = 0
  /\ called = "none"
  /\ steps = <<>>
  /\ threw = FALSE
  /\ run = Idle

\* the functions that take the input drawn
Applicable ==
  IF grid # NoGrid THEN {"bfs", "dijkstra", "aStar"}
  ELSE IF graph # NoGraph THEN {"dfs", "graphBFS", "topologicalSort"}
  ELSE {"bubbleSort", "mergeSort", "quickSort"}

\* the steps of the call in the order they are pushed, each with the
\* contents its snapshot expressions read at that instant
Pushes(f) ==
  CASE f = "bubbleSort" -> bubbleSort(arr)
    [] f = "mergeSort" -> mergeSort(arr)
    [] f = "quickSort" -> quickSort(arr)
    [] f = "bfs" -> bfs(grid, startPos, endPos)
    [] f = "dijkstra" -> dijkstra(grid, startPos, endPos)
    [] f = "aStar" -> aStar(grid, startPos, endPos)
    [] f = "dfs" -> dfs(graph, startNode).steps
    [] f = "graphBFS" -> graphBFS(graph, startNode).steps
    [] f = "topologicalSort" -> topologicalSort(graph)

\* entering the function: const steps = [], the working structures empty
EnterEngine ==
  /\ called = "none"
  /\ \E f \in Applicable :
       /\ called' = f
       /\ run' = [pc     |-> "running",
                  pushes |-> Pushes(f),
                  work   |-> [fld \in CollectionFields |-> <<>>],
                  out    |-> <<>>]
  /\ UNCHANGED <<arr, grid, startPos, endPos, graph, startNode, steps, threw>>

\* the algorithm runs on to its next steps.push({ ... })
PushStep ==
  /\ run.pc = "running"
  /\ Len(run.out) < Len(run.pushes)
  /\ LET next == run.pushes[Len(run.out) + 1]
     IN  run' = [run EXCEPT
                   !.work = [fld \in CollectionFields |->
                               IF fld \in DOMAIN next THEN next[fld] ELSE @[fld]],
                   !.out = Append(@, Pushed(next))]
  /\ UNCHANGED <<arr, grid, startPos, endPos, graph, startNode, called, steps, threw>>

\* return steps: the caller reads the steps as they are now
ReturnSteps ==
  /\ run.pc = "running"
  /\ Len(run.out) = Len(run.pushes)
  /\ steps' = [k \in DOMAIN run.out |-> Contents(run.work, run.out[k])]
  /\ run' = [run EXCEPT !.pc = "returned"]
  /\ UNCHANGED <<arr, grid, startPos, endPos, graph, startNode, called, threw>>

SnapshotNext == EnterEngine \/ PushStep \/ ReturnSteps

SnapshotSpec == SnapshotInit /\ [][SnapshotNext]_vars

-----------------------------------------------------------------------------
(* Playback: the three visualizer components.  SortingVisualizer          *)
(* (src/unnamed/part_000), PathfindingVisualizer and GraphVisualizer      *)
(* (src/src/components) keep the same playback state: the input (arr,     *)
(* grid or graph), steps, and in run the state hooks algorithm,           *)
(* isPlaying, speed, currentStep and the statistics, the cleanup function *)
(* the animation effect returned last, and the interval timers that are   *)
(* armed.  One action is one event: the handler, the render that follows  *)
(* and the animation effect when one of its dependencies                  *)
(* [isPlaying, steps, speed] has changed.                                 *)

MaxPlayLen == 3       \* longest array a sorting playback generates (50 in the source)
MaxPlayVal == 2       \* largest value of such an array
MaxPlayRows == 1      \* most rows of a grid a pathfinding playback generates (25)
MaxPlayCols == 2      \* most columns of such a grid (40)
MaxPlayNodes == 2     \* most nodes of a graph a graph playback generates (15)

Visualizers == {"SortingVisualizer", "PathfindingVisualizer", "GraphVisualizer"}

\* the options of the algorithm select; useState starts with the first
Algorithms(v) ==
  CASE v = "SortingVisualizer" -> <<"bubble", "merge", "quick">>
    [] v = "PathfindingVisualizer" -> <<"bfs", "dijkstra", "astar">>
    [] v = "GraphVisualizer" -> <<"dfs", "bfs", "topological">>

\* the range input: min 1, max 100, useState(50)
Speeds == {1, 50, 100}

\* generateRandomArray(50): the length is fixed and at least 2, the values random
generateRandomArray == {a \in SeqsUpTo(1..MaxPlayVal, MaxPlayLen) : Len(a) >= 2}

\* createGrid(GRID_COLS, GRID_ROWS): random obstacles, none at [0, 0] or at
\* [height - 1, width - 1]
createGrid ==
  UNION {{MakeGrid(rows, cols, obstacles) :
            obstacles \in SUBSET (AllCells(rows, cols)
                                    \ {<<0, 0>>, <<rows - 1, cols - 1>>})} :
         rows \in 1..MaxPlayRows, cols \in 2..MaxPlayCols}

\* createGraph(15): the spanning tree edges [i, j] with i < j, then an extra
\* edge [i, target] with target # i
createGraph ==
  UNION {{[nodes |-> NodeIds(n),
           edges |-> [i \in 1..(n - 1) |-> <<i - 1, tree[i]>>] \o extra] :
            tree \in {f \in [1..(n - 1) -> 0..(n - 1)] :
                        \A i \in 1..(n - 1) : f[i] >= i},
            extra \in SeqsUpTo({e \in (0..(n - 1)) \X (0..(n - 1)) : e[1] # e[2]}, 1)} :
         n \in 2..MaxPlayNodes}

\* the statistics hooks at their initial values
NoStats(v) ==
  CASE v = "SortingVisualizer" -> [comparisons |-> 0, swaps |-> 0]
    [] v = "PathfindingVisualizer" -> [pathLength |-> 0, exploredCount |-> 0]
    [] v = "GraphVisualizer" -> [visitedCount |-> 0, visitOrder |-> <<>>]

\* the component after its first render
Mounted(v) ==
  [pc |-> "mounted", visualizer |-> v, algorithm |-> Algorithms(v)[1],
   isPlaying |-> FALSE, speed |-> 50, currentStep |-> 0, stats |-> NoStats(v),
   cleanup |-> <<>>, timers |-> {}]

PlaybackInit ==
  /\ \E v \in Visualizers :
       /\ run = Mounted(v)
       /\ IF v = "SortingVisualizer" THEN arr \in generateRandomArray ELSE arr = <<>>
       /\ IF v = "PathfindingVisualizer"
          THEN /\ grid \in createGrid
               /\ startPos = <<0, 0>>
               /\ endPos = <<Rows(grid) - 1, Cols(grid) - 1>>
          ELSE grid = NoGrid /\ startPos = NoPos /\ endPos = NoPos
       /\ IF v = "GraphVisualizer" THEN graph \in createGraph ELSE graph = NoGraph
  /\ startNode = 0
  /\ called = "none"
  /\ steps = <<>>
  /\ threw = FALSE

\* setInterval returns an id that no armed timer has
NewIntervalId(timers) ==
  CHOOSE id \in 1..(Cardinality(timers) + 1) : \A t \in timers : t.id # id

\* clearInterval(interval)
ClearIntervalForgotten(timers, interval) == timers
ClearInterval(timers, interval) == {t \in timers : t.id # interval}

\* return () => clearInterval(interval): the cleanup of the effect's last
\* run, called before the effect runs again
EffectCleanup(u) ==
  IF u.cleanup = <<>> THEN u
  ELSE [u EXCEPT !.timers = ClearInterval(@, u.cleanup[1]), !.cleanup = <<>>]

\* the animation effect, run after a render in which isPlaying, steps or
\* speed has changed; the callback of the timer it arms closes over ss
AnimationEffect(u, ss) ==
  LET c == EffectCleanup(u)
  IN  IF ~c.isPlaying \/ Len(ss) = 0 THEN c
      ELSE LET interval == NewIntervalId(c.timers)
           IN  [c EXCEPT !.cleanup = <<interval>>,
                         !.timers = @ \cup {[id |-> interval, steps |-> ss,
                                             delay |-> 101 - c.speed]}]

\* setSteps(s); setCurrentStep(0); setIsPlaying(p); the statistics reset
Reset(u, p) ==
  [u EXCEPT !.isPlaying = p, !.currentStep = 0, !.stats = NoStats(u.visualizer)]

\* the Generate buttons are disabled={isPlaying}
handleGenerateArray ==
  /\ run.visualizer = "SortingVisualizer"
  /\ ~run.isPlaying
  /\ arr' \in generateRandomArray
  /\ steps' = <<>>
  /\ run' = AnimationEffect(Reset(run, FALSE), <<>>)
  /\ UNCHANGED <<grid, startPos, endPos, graph, startNode, called, threw>>

handleGenerateGrid ==
  /\ run.visualizer = "PathfindingVisualizer"
  /\ ~run.isPlaying
  /\ grid' \in {g \in createGrid : Rows(g) = Rows(grid) /\ Cols(g) = Cols(grid)}
  /\ steps' = <<>>
  /\ run' = AnimationEffect(Reset(run, FALSE), <<>>)
  /\ UNCHANGED <<arr, startPos, endPos, graph, startNode, called, threw>>

handleGenerateGraph ==
  /\ run.visualizer = "GraphVisualizer"
  /\ ~run.isPlaying
  /\ graph' \in {g \in createGraph : Len(g.nodes) = Len(graph.nodes)}
  /\ steps' = <<>>
  /\ run' = AnimationEffect(Reset(run, FALSE), <<>>)
  /\ UNCHANGED <<arr, grid, startPos, endPos, startNode, called, threw>>

\* the Start buttons are disabled={isPlaying || steps.length > 0}
StartEnabled == ~run.isPlaying /\ Len(steps) = 0

handleSort ==
  /\ run.visualizer = "SortingVisualizer"
  /\ StartEnabled
  /\ LET newSteps == CASE run.algorithm = "bubble" -> bubbleSort(arr)
                       [] run.algorithm = "merge" -> mergeSort(arr)
                       [] run.algorithm = "quick" -> quickSort(arr)
     IN  /\ steps' = newSteps
         /\ run' = AnimationEffect(Reset(run, TRUE), newSteps)
  /\ called' = CASE run.algorithm = "bubble" -> "bubbleSort"
                 [] run.algorithm = "merge" -> "mergeSort"
                 [] run.algorithm = "quick" -> "quickSort"
  /\ UNCHANGED <<arr, grid, startPos, endPos, graph, startNode, threw>>

handleFindPath ==
  /\ run.visualizer = "PathfindingVisualizer"
  /\ StartEnabled
  /\ LET newSteps == CASE run.algorithm = "bfs" -> bfs(grid, startPos, endPos)
                       [] run.algorithm = "dijkstra" -> dijkstra(grid, startPos, endPos)
                       [] run.algorithm = "astar" -> aStar(grid, startPos, endPos)
     IN  /\ steps' = newSteps
         /\ run' = AnimationEffect(Reset(run, TRUE), newSteps)
  /\ called' = CASE run.algorithm = "bfs" -> "bfs"
                 [] run.algorithm = "dijkstra" -> "dijkstra"
                 [] run.algorithm = "astar" -> "aStar"
  /\ UNCHANGED <<arr, grid, startPos, endPos, graph, startNode, threw>>

handleStartAlgorithm ==
  /\ run.visualizer = "GraphVisualizer"
  /\ StartEnabled
  /\ LET newSteps == CASE run.algorithm = "dfs" -> Returned(dfs(graph, 0))
                       [] run.algorithm = "bfs" -> Returned(graphBFS(graph, 0))
                       [] run.algorithm = "topological" -> topologicalSort(graph)
     IN  /\ steps' = newSteps
         /\ run' = AnimationEffect(Reset(run, TRUE), newSteps)
  /\ called' = CASE run.algorithm = "dfs" -> "dfs"
                 [] run.algorithm = "bfs" -> "graphBFS"
                 [] run.algorithm = "topological" -> "topologicalSort"
  /\ UNCHANGED <<arr, grid, startPos, endPos, graph, startNode, threw>>

\* the Pause/Resume button: onClick={() => setIsPlaying(!isPlaying)},
\* disabled={steps.length === 0}
TogglePlaying ==
  /\ Len(steps) # 0
  /\ run' = AnimationEffect([run EXCEPT !.isPlaying = ~run.isPlaying], steps)
  /\ UNCHANGED <<arr, grid, startPos, endPos, graph, startNode, called, steps, threw>>

\* the speed range input: onChange={(e) => setSpeed(Number(e.target.value))},
\* disabled={isPlaying}
ChangeSpeed ==
  /\ ~run.isPlaying
  /\ \E v \in Speeds \ {run.speed} :
       run' = AnimationEffect([run EXCEPT !.speed = v], steps)
  /\ UNCHANGED <<arr, grid, startPos, endPos, graph, startNode, called, steps, threw>>

\* the algorithm select: onChange={(e) => setAlgorithm(e.target.value)},
\* disabled={isPlaying}; algorithm is no dependency of the animation effect
ChangeAlgorithm ==
  /\ ~run.isPlaying
  /\ \E a \in Range(Algorithms(run.visualizer)) \ {run.algorithm} :
       run' = [run EXCEPT !.algorithm = a]
  /\ UNCHANGED <<arr, grid, startPos, endPos, graph, startNode, called, steps, threw>>

\* the statistics after the timer has moved to step
UpdateStats(v, s, step) ==
  CASE v = "SortingVisualizer" ->
         [s EXCEPT !.comparisons = @ + (IF step.type = "compare" THEN 1 ELSE 0),
                   !.swaps = @ + (IF step.type = "swap" THEN 1 ELSE 0)]
    [] v = "PathfindingVisualizer" ->
         IF step.type = "explore"
         THEN [s EXCEPT !.exploredCount = Cardinality(step.visited)]
         ELSE IF step.type = "path" THEN [s EXCEPT !.pathLength = Len(step.path)]
         ELSE s
    [] v = "GraphVisualizer" ->
         [visitedCount |-> IF "visited" \in DOMAIN step
                           THEN Cardinality(step.visited) ELSE s.visitedCount,
          visitOrder |-> IF "result" \in DOMAIN step THEN step.result
                         ELSE IF "visitOrder" \in DOMAIN step THEN step.visitOrder
                         ELSE s.visitOrder]

\* the callback of an armed timer fires: setCurrentStep((prev) => ...) over
\* the steps the callback closes over
Tick ==
  /\ \E t \in run.timers :
       LET next == run.currentStep + 1
       IN  IF next < Len(t.steps)
           THEN LET step == At(t.steps, next)
                IN  /\ run' = [run EXCEPT !.currentStep = next,
                                          !.stats = UpdateStats(run.visualizer, @, step)]
                    /\ arr' = IF run.visualizer = "SortingVisualizer"
                              THEN step.array ELSE arr
           ELSE /\ run' = AnimationEffect([run EXCEPT !.isPlaying = FALSE], steps)
                /\ arr' = arr
  /\ UNCHANGED <<grid, startPos, endPos, graph, startNode, called, steps, threw>>

PlaybackNext ==
  \/ handleGenerateArray \/ handleGenerateGrid \/ handleGenerateGraph
  \/ handleSort \/ handleFindPath \/ handleStartAlgorithm
  \/ TogglePlaying \/ ChangeSpeed \/ ChangeAlgorithm
  \/ Tick

PlaybackSpec == PlaybackInit /\ [][PlaybackNext]_vars

----------------------------------------------------------------------------
(* Properties of the sorting engine, checked under SortSpec *)

SortFns == {"bubbleSort", "mergeSort", "quickSort"}

IsSorted(a) == \A i \in 1..(Len(a) - 1) : a[i] <= a[i + 1]

Count(a, v) == Cardinality({i \in DOMAIN a : a[i] = v})

SameMultiset(a, b) ==
  /\ Len(a) = Len(b)
  /\ \A v \in Range(a) \cup Range(b) : Count(a, v) = Count(b, v)

StepsOfType(ss, t) == {k \in DOMAIN ss : ss[k].type = t}

\* C1: for bubbleSort, mergeSort and quickSort, whenever the returned step
\* sequence is non-empty, the array snapshot of its last step is the input
\* array arranged in non-decreasing order (a sorted permutation of the input).
C1_LastSnapshotSortedPermutation ==
  (called \in SortFns /\ steps # <<>>) =>
    /\ IsSorted(Last(steps).array)
    /\ SameMultiset(Last(steps).array, arr)

\* C1 witness: quickSort has returned a non-empty sequence for an unsorted
\* input with a repeated value, and its last snapshot is the sorted input.
C1_Witness ==
  /\ called = "quickSort"
  /\ arr = <<3, 1, 2, 1>>
  /\ steps # <<>>
  /\ Last(steps).array = <<1, 1, 2, 3>>

\* C2 as stated: for bubbleSort, mergeSort and quickSort the array snapshot of
\* every step of the returned sequence holds the same multiset of values as
\* the input array.
C2_EverySnapshotSameMultiset ==
  called \in SortFns =>
    \A k \in DOMAIN steps : SameMultiset(steps[k].array, arr)

\* C2 as amended: for bubbleSort and quickSort the snapshot of every step is
\* a permutation of the input; for mergeSort every snapshot has the length of
\* the input and holds only values of the input, and the snapshot of the last
\* step is a permutation of the input (inside a merge a snapshot may hold one
\* value twice in place of a value not yet written back).
C2_SnapshotsAmended ==
  /\ called \in {"bubbleSort", "quickSort"} =>
       \A k \in DOMAIN steps : SameMultiset(steps[k].array, arr)
  /\ called = "mergeSort" =>
       /\ \A k \in DOMAIN steps :
            /\ Len(steps[k].array) = Len(arr)
            /\ Range(steps[k].array) \subseteq Range(arr)
       /\ steps # <<>> => SameMultiset(Last(steps).array, arr)

\* C2 witness: mergeSort has returned a sequence in which some snapshot is
\* not a permutation of the input while the last one is.
C2_Witness ==
  /\ called = "mergeSort"
  /\ \E k \in DOMAIN steps : ~SameMultiset(steps[k].array, arr)
  /\ SameMultiset(Last(steps).array, arr)

\* C3: for every input array of length n, bubbleSort emits exactly n(n-1)/2
\* compare steps, whatever the values are (already-sorted input included).
C3_BubbleCompareCount ==
  called = "bubbleSort" =>
    Cardinality(StepsOfType(steps, "compare")) = (Len(arr) * (Len(arr) - 1)) \div 2

\* C3 witness: bubbleSort has run on an already-sorted array of four values
\* and emitted six compare steps and no swap step.
C3_Witness ==
  /\ called = "bubbleSort"
  /\ Len(arr) = 4
  /\ IsSorted(arr)
  /\ Cardinality(StepsOfType(steps, "compare")) = 6
  /\ StepsOfType(steps, "swap") = {}

----------------------------------------------------------------------------
(* Properties of the pathfinding engine, checked under PathSpec.           *)
(* Reachability and optimal cost are defined here as a reference, by       *)
(* fixpoint over the grid, independently of the three searches.            *)

PathFns == {"bfs", "dijkstra", "aStar"}

\* one legal move from a to b: orthogonal, or (when diag) diagonal as well
IsMove(a, b, diag) ==
  LET dr == Abs(a[1] - b[1])
      dc == Abs(a[2] - b[2])
  IN  \/ dr + dc = 1
      \/ diag /\ dr = 1 /\ dc = 1

MoveCost(a, b) == IF a[1] = b[1] \/ a[2] = b[2] THEN Orth ELSE Diag

OpenCells(g) == {c \in Cells(g) : GridAt(g, c) = 0}

\* the cells reachable from the cells of seen by legal moves through open cells
\* the open cells one legal move away from cell a
Neighbours(g, a, diag) ==
  {c \in {<<a[1] + dr, a[2] + dc>> : dr \in {-1, 0, 1}, dc \in {-1, 0, 1}} :
     /\ IsMove(a, c, diag)
     /\ c[1] \in 0..(Rows(g) - 1) /\ c[2] \in 0..(Cols(g) - 1)
     /\ GridAt(g, c) = 0}

\* the cells reachable from the cells of frontier by legal moves through open
\* cells, together with seen
RECURSIVE Closure(_, _, _, _)
Closure(g, seen, frontier, diag) ==
  LET more == UNION {Neighbours(g, a, diag) : a \in frontier} \ seen
  IN  IF more = {} THEN seen ELSE Closure(g, seen \cup more, more, diag)

Reachable(g, start, end, diag) == end \in Closure(g, {start}, {start}, diag)

\* the least number of moves from the cells of frontier to end, plus d;
\* only used when end is reachable
RECURSIVE MinMoves(_, _, _, _, _)
MinMoves(g, seen, frontier, end, d) ==
  IF end \in frontier THEN d
  ELSE LET next == UNION {Neighbours(g, a, FALSE) : a \in frontier} \ seen
       IN  MinMoves(g, seen \cup next, next, end, d + 1)

\* Bellman-Ford: the least cost from start to every cell, Infinity when none
RECURSIVE LeastCost(_, _)
LeastCost(g, dist) ==
  LET via(c) == {dist[a] + MoveCost(a, c) : a \in Neighbours(g, c, TRUE)}
      Min(S) == CHOOSE x \in S : \A y \in S : x <= y
      next == [c \in Cells(g) |->
                 IF GridAt(g, c) = 0 THEN Min({dist[c]} \cup via(c)) ELSE dist[c]]
  IN  IF next = dist THEN dist ELSE LeastCost(g, next)

OptimalCost(g, start, end) ==
  LeastCost(g, [c \in Cells(g) |-> IF c = start THEN 0 ELSE Infinity])[end]

RECURSIVE PathCost(_)
PathCost(path) ==
  IF Len(path) <= 1 THEN 0
  ELSE MoveCost(path[1], path[2]) + PathCost(Tail(path))

HasPath == steps # <<>> /\ Last(steps).type = "path"

Manhattan(a, b) == Abs(a[1] - b[1]) + Abs(a[2] - b[2])

\* C4: whenever end is reachable from start by 4-directional moves through
\* open cells, the path of bfs's path step has the least possible number of
\* cells of any such route; on an obstacle-free grid that is Manhattan
\* distance + 1 cells.
C4_BfsPathShortest ==
  (called = "bfs" /\ Reachable(grid, startPos, endPos, FALSE)) =>
    /\ HasPath
    /\ Len(Last(steps).path) = MinMoves(grid, {startPos}, {startPos}, endPos, 0) + 1
    /\ OpenCells(grid) = Cells(grid) =>
         Len(Last(steps).path) = Manhattan(startPos, endPos) + 1

\* C4 witness: bfs has returned a path longer than Manhattan distance + 1
\* cells, because an obstacle forces a detour.
C4_Witness ==
  /\ called = "bfs"
  /\ HasPath
  /\ Len(Last(steps).path) > Manhattan(startPos, endPos) + 1

\* C5: whenever end is reachable from start by 8-directional moves through
\* open cells, the path of dijkstra's path step has the least total cost of
\* any such route (10 per orthogonal move, 14 per diagonal move).
C5_DijkstraPathOptimal ==
  (called = "dijkstra" /\ Reachable(grid, startPos, endPos, TRUE)) =>
    /\ HasPath
    /\ PathCost(Last(steps).path) = OptimalCost(grid, startPos, endPos)

\* C5 witness: dijkstra has returned a path that mixes diagonal and
\* orthogonal moves around obstacles.
C5_Witness ==
  /\ called = "dijkstra"
  /\ HasPath
  /\ OpenCells(grid) # Cells(grid)
  /\ LET path == Last(steps).path
     IN  /\ \E i \in 1..(Len(path) - 1) : MoveCost(path[i], path[i + 1]) = Diag
         /\ \E i \in 1..(Len(path) - 1) : MoveCost(path[i], path[i + 1]) = Orth

\* C6 as stated: whenever end is reachable from start by 8-directional moves
\* through open cells, the path of aStar's path step has the least total
\* cost of any such route.
C6_AStarPathOptimal ==
  (called = "aStar" /\ Reachable(grid, startPos, endPos, TRUE)) =>
    /\ HasPath
    /\ PathCost(Last(steps).path) = OptimalCost(grid, startPos, endPos)

\* C7: when end is not reachable from start under the function's own moves
\* (4-directional for bfs, 8-directional for dijkstra and aStar), the
\* returned sequence holds no path step: every step is an explore step.
C7_NoPathWhenUnreachable ==
  (called \in PathFns /\ ~Reachable(grid, startPos, endPos, called # "bfs")) =>
    \A k \in DOMAIN steps : steps[k].type = "explore"

\* C7 witness: dijkstra has explored several cells of a grid whose end is
\* walled off and has returned explore steps only.
C7_Witness ==
  /\ called = "dijkstra"
  /\ ~Reachable(grid, startPos, endPos, TRUE)
  /\ Len(steps) >= 3
  /\ \A k \in DOMAIN steps : steps[k].type = "explore"

\* C8: whenever end is reachable from start, the returned sequence holds
\* exactly one path step, it is the last step, and its path starts with
\* start, ends with end (one cell when start = end), every cell is in bounds
\* and open, and consecutive cells are one legal move apart (4-directional
\* for bfs, 8-directional for dijkstra and aStar).
C8_OnePathStepWellFormed ==
  (called \in PathFns /\ Reachable(grid, startPos, endPos, called # "bfs")) =>
    /\ HasPath
    /\ StepsOfType(steps, "path") = {Len(steps)}
    /\ LET path == Last(steps).path
       IN  /\ Len(path) >= 1
           /\ path[1] = startPos
           /\ path[Len(path)] = endPos
           /\ startPos = endPos => Len(path) = 1
           /\ \A i \in DOMAIN path : path[i] \in OpenCells(grid)
           /\ \A i \in 1..(Len(path) - 1) : IsMove(path[i], path[i + 1], called # "bfs")

\* C8 witness: aStar has returned a path of at least four cells on a grid
\* with obstacles.
C8_Witness ==
  /\ called = "aStar"
  /\ HasPath
  /\ Len(Last(steps).path) >= 4
  /\ OpenCells(grid) # Cells(grid)

----------------------------------------------------------------------------
(* Properties of the graph engine, checked under GraphSpec.  The           *)
(* reachable component and acyclicity are defined here as a reference,     *)
(* by fixpoint over the edges, independently of the traversals.            *)

NodeSet(g) == 0..(Len(g.nodes) - 1)

EdgeSet(g) == Range(g.edges)

\* the nodes reachable from the nodes of seen along edges, read as u -> v or,
\* when undirected, both ways
RECURSIVE ReachableNodes(_, _, _)
ReachableNodes(g, seen, undirected) ==
  LET more == {n \in NodeSet(g) \ seen :
                 \E m \in seen : \/ <<m, n>> \in EdgeSet(g)
                                 \/ undirected /\ <<n, m>> \in EdgeSet(g)}
  IN  IF more = {} THEN seen ELSE ReachableNodes(g, seen \cup more, undirected)

Component(g, start) == ReachableNodes(g, {start}, TRUE)

\* no directed cycle: no node is reachable from one of its own successors
IsDAG(g) ==
  \A n \in NodeSet(g) :
    n \notin ReachableNodes(g, {m \in NodeSet(g) : <<n, m>> \in EdgeSet(g)}, FALSE)
    /\ <<n, n>> \notin EdgeSet(g)

NoDuplicates(s) == \A i, j \in DOMAIN s : s[i] = s[j] => i = j

Position(s, x) == CHOOSE i \in DOMAIN s : s[i] = x

\* C9: dfs and graphBFS each visit every node reachable from start over
\* undirected edges exactly once: one visit step per node of the reachable
\* component, the visited set of the last step is that component, and the
\* visitOrder of the last step lists exactly its nodes without duplicates.
C9_TraversalVisitsComponentOnce ==
  called \in {"dfs", "graphBFS"} =>
    /\ ~threw
    /\ steps # <<>>
    /\ Last(steps).visited = Component(graph, startNode)
    /\ Range(Last(steps).visitOrder) = Component(graph, startNode)
    /\ NoDuplicates(Last(steps).visitOrder)
    /\ Len(steps) = Cardinality(Component(graph, startNode))
    /\ \A i, j \in DOMAIN steps : steps[i].node = steps[j].node => i = j

\* C9 witness: dfs has visited a two-node component of a three-node graph
\* whose edge list repeats an edge, leaving the third node unvisited.
C9_Witness ==
  /\ called = "dfs"
  /\ Len(graph.nodes) = 3
  /\ ~NoDuplicates(graph.edges)
  /\ Cardinality(Component(graph, startNode)) = 2
  /\ Len(Last(steps).visitOrder) = 2

\* C10: when the edges, read as directed u -> v, form a directed acyclic
\* graph, the result of the last step of topologicalSort places u before v
\* for every edge u -> v.
C10_TopologicalOrderOnDag ==
  (called = "topologicalSort" /\ IsDAG(graph)) =>
    /\ steps # <<>>
    /\ LET result == Last(steps).result
       IN  \A e \in EdgeSet(graph) :
             /\ e[1] \in Range(result)
             /\ e[2] \in Range(result)
             /\ Position(result, e[1]) < Position(result, e[2])

\* C10 witness: topologicalSort has ordered a three-node DAG with three
\* edges whose order is not the order of the node ids.
C10_Witness ==
  /\ called = "topologicalSort"
  /\ IsDAG(graph)
  /\ Cardinality(EdgeSet(graph)) = 3
  /\ Last(steps).result = <<2, 1, 0>>

\* C11: detectCycle emits at least one cycle step if and only if the edges,
\* read as directed u -> v, contain a directed cycle (a self-loop counts);
\* no cycle step is emitted for a DAG.
C11_CycleStepIffDirectedCycle ==
  called = "detectCycle" =>
    ((StepsOfType(steps, "cycle") # {}) <=> ~IsDAG(graph))

\* C11 witness: detectCycle has run on the triangle 0 -> 1 -> 2 -> 0 and
\* emitted a cycle step.
C11_Witness ==
  /\ called = "detectCycle"
  /\ graph.edges = <<<<0, 1>>, <<1, 2>>, <<2, 0>>>>
  /\ StepsOfType(steps, "cycle") # {}

\* C12: in the sequence returned by detectCycle, a finish step carries
\* hasCycle = TRUE if and only if some cycle step occurs earlier in the
\* sequence: a finish before the first cycle step carries FALSE even when a
\* cycle step follows, and every finish after the first cycle step carries TRUE.
C12_FinishFlagIffEarlierCycleStep ==
  called = "detectCycle" =>
    \A k \in DOMAIN steps :
      steps[k].type = "finish" =>
        (steps[k].hasCycle <=> \E j \in 1..(k - 1) : steps[j].type = "cycle")

\* C12 witness: detectCycle has returned a sequence in which a finish step
\* carrying FALSE comes before a cycle step and a finish step carrying TRUE
\* comes after it.
C12_Witness ==
  /\ called = "detectCycle"
  /\ \E i, j, k \in DOMAIN steps :
       /\ i < j /\ j < k
       /\ steps[i].type = "finish" /\ ~steps[i].hasCycle
       /\ steps[j].type = "cycle"
       /\ steps[k].type = "finish" /\ steps[k].hasCycle

GraphFns == {"dfs", "graphBFS", "topologicalSort", "detectCycle"}

\* C14: for the empty graph (no nodes, no edges) each of dfs, graphBFS,
\* topologicalSort and detectCycle returns a step sequence without raising
\* an exception.
C14_EmptyGraphNoException ==
  (called \in GraphFns /\ graph.nodes = <<>> /\ graph.edges = <<>>) => ~threw

\* the run followed step by step returns what the function computes
RunReturnsFunctionResult ==
  run.pc = "done" =>
    steps = CASE called = "bfs" -> bfs(grid, startPos, endPos)
              [] called = "dijkstra" -> dijkstra(grid, startPos, endPos)
              [] called = "aStar" -> aStar(grid, startPos, endPos)

\* C15: for every non-empty grid and every start and end cell, each of bfs,
\* dijkstra and aStar terminates, whether or not a path exists.  Every step
\* of a call in progress is one pass of its main loop, which emits one
\* explore step unless it leaves the loop, or one pass of the parent-pointer
\* reconstruction, which adds one cell to the path unless it returns: the
\* main loop never emits more explore steps than the grid has cells, the
\* reconstruction never collects more cells than the grid has, and what is
\* returned has at most one step more than the grid has cells.
C15_SearchesTerminate ==
  called \in PathFns =>
    /\ run.pc \in {"loop", "walk", "done"}
    /\ run.pc \in {"loop", "walk"} =>
         Len(run.s.steps) <= Rows(grid) * Cols(grid)
    /\ run.pc = "walk" => Len(run.path) <= Rows(grid) * Cols(grid)
    /\ run.pc = "done" => Len(steps) <= Rows(grid) * Cols(grid) + 1

\* C15 witness: dijkstra has returned after a reconstruction of two hops on a
\* grid with an obstacle.
C15_Witness ==
  /\ called = "dijkstra"
  /\ run.pc = "done"
  /\ OpenCells(grid) # Cells(grid)
  /\ HasPath
  /\ Len(Last(steps).path) = 3

\* C16: for every nodeCount >= 1 and every outcome of the random choices,
\* the graph createGraph returns is connected when its edges are read as
\* undirected, and every edge endpoint is a node id in 0..nodeCount-1.
C16_CreatedGraphConnected ==
  (called = "createGraph" /\ run.pc = "done") =>
    /\ Len(graph.nodes) >= 1
    /\ \A e \in EdgeSet(graph) : e[1] \in NodeSet(graph) /\ e[2] \in NodeSet(graph)
    /\ Component(graph, 0) = NodeSet(graph)

\* C16 witness: createGraph has returned a three-node graph whose edge list
\* repeats a spanning-tree edge as a random edge.
C16_Witness ==
  /\ called = "createGraph"
  /\ run.pc = "done"
  /\ Len(graph.nodes) = 3
  /\ ~NoDuplicates(graph.edges)

\* the number of the outer pass a sorted step of bubbleSort closes: the
\* number of sorted steps before it
PassOf(k) == Cardinality({m \in StepsOfType(steps, "sorted") : m < k})

\* C18: bubbleSort on an array of length n emits exactly one sorted step at
\* the end of each outer pass i = 0..n-1 (after the n-i-1 compare steps of
\* the pass), and the indices of the sorted step of pass i are exactly the
\* last i+1 positions n-1-i..n-1 of the array.
C18_SortedStepMarksSettledSuffix ==
  called = "bubbleSort" =>
    LET n == Len(arr)
    IN  /\ Cardinality(StepsOfType(steps, "sorted")) = n
        /\ n > 0 => Last(steps).type = "sorted"
        /\ \A k \in StepsOfType(steps, "sorted") :
             /\ Cardinality({m \in StepsOfType(steps, "compare") : m < k})
                  = (n * (n - 1) - (n - PassOf(k) - 1) * (n - PassOf(k) - 2)) \div 2
             /\ Len(steps[k].indices) = PassOf(k) + 1
             /\ Range(steps[k].indices) = (n - 1 - PassOf(k))..(n - 1)

\* the preorder of a recursive depth-first search: visit node, then search
\* from each neighbour not yet visited, in adjacency-list order
RECURSIVE RecursivePreorder(_, _, _)
RECURSIVE RecursiveNeighbours(_, _, _)

RecursiveNeighbours(order, neighbors, adj) ==
  IF neighbors = <<>> THEN order
  ELSE RecursiveNeighbours(IF Head(neighbors) \in Range(order)
                           THEN order
                           ELSE RecursivePreorder(order, Head(neighbors), adj),
                           Tail(neighbors), adj)

RecursivePreorder(order, node, adj) ==
  RecursiveNeighbours(Append(order, node), adj[node], adj)

NodesOfSteps(ss) == [k \in DOMAIN ss |-> ss[k].node]

\* C19: the order in which dfs (explicit stack, unvisited neighbours pushed in
\* reverse adjacency order, visited checked at pop) emits its visit steps is
\* the preorder of a recursive depth-first search from start that tries each
\* node's neighbours in adjacency-list order; a node pushed on the stack
\* several times still gets exactly one visit step.
C19_DfsOrderIsRecursivePreorder ==
  called = "dfs" =>
    /\ \A k \in DOMAIN steps : steps[k].type = "visit"
    /\ NodesOfSteps(steps) =
         RecursivePreorder(<<>>, startNode,
                           buildAdjacencyList(Len(graph.nodes), graph.edges))
    /\ NoDuplicates(NodesOfSteps(steps))

\* C19 witness: dfs has run on a triangle, in which the third node visited is
\* pushed by the start node and again by the second node, and has emitted
\* three visit steps in an order that is not the order of the node ids.
C19_Witness ==
  /\ called = "dfs"
  /\ graph.edges = <<<<0, 2>>, <<0, 1>>, <<1, 2>>>>
  /\ NodesOfSteps(steps) = <<0, 2, 1>>

\* C20: for every non-empty graph, whether or not its directed edges contain
\* a cycle and whatever the number of its roots, topologicalSort returns
\* without rejecting the input, emits exactly one visit step and one finish
\* step per node, the visit before the finish, and the result of its last
\* step lists every node 0..N-1 exactly once.
C20_TopologicalSortCoversEveryNode ==
  (called = "topologicalSort" /\ graph.nodes # <<>>) =>
    /\ ~threw
    /\ steps # <<>>
    /\ \A k \in DOMAIN steps : steps[k].type \in {"visit", "finish"}
    /\ \A n \in NodeSet(graph) :
         \E v, f \in DOMAIN steps :
           /\ v < f
           /\ {k \in StepsOfType(steps, "visit") : steps[k].node = n} = {v}
           /\ {k \in StepsOfType(steps, "finish") : steps[k].node = n} = {f}
    /\ Len(steps) = 2 * Len(graph.nodes)
    /\ Range(Last(steps).result) = NodeSet(graph)
    /\ NoDuplicates(Last(steps).result)

\* C20 witness: topologicalSort has run on a three-node graph whose directed
\* edges hold a cycle and whose node 2 is a second root, and has returned an
\* order of all three nodes.
C20_Witness ==
  /\ called = "topologicalSort"
  /\ Len(graph.nodes) = 3
  /\ ~IsDAG(graph)
  /\ EdgeSet(graph) = {<<0, 1>>, <<1, 0>>}
  /\ Len(Last(steps).result) = 3

\* C13: in every engine a step's collection fields (array, visited,
\* visitOrder, result, path) are not an object the algorithm changes after
\* pushing the step: at every instant of the call, and when it has returned,
\* every step pushed so far shows exactly the contents it had when it was
\* pushed.
C13_PushedStepsKeepTheirContents ==
  /\ run.pc \in {"running", "returned"} =>
       \A k \in DOMAIN run.out :
         Contents(run.work, run.out[k]) = run.pushes[k]
  /\ run.pc = "returned" => steps = run.pushes

\* C13 witness: dijkstra has returned explore steps with different visited
\* sets followed by a path step, whose path is the array the reconstruction
\* built.
C13_Witness ==
  /\ called = "dijkstra"
  /\ run.pc = "returned"
  /\ Len(steps) >= 3
  /\ steps[1].visited # steps[2].visited
  /\ Last(steps).type = "path"
  /\ run.out[Len(steps)].shared = {"path"}

\* the steps a search has pushed so far, or has returned
StepsSoFar == IF run.pc \in {"loop", "walk"} THEN run.s.steps ELSE steps

-----------------------------------------------------------------------------
(* Properties of the playback of the visualizers, checked under            *)
(* PlaybackSpec                                                            *)

\* an event that replaces the step sequence: Generate or Start
ReplacesSteps ==
  \/ handleGenerateArray \/ handleGenerateGrid \/ handleGenerateGraph
  \/ handleSort \/ handleFindPath \/ handleStartAlgorithm

\* at most one timer is armed, only while isPlaying holds and steps is
\* non-empty, and its callback closes over the current steps
TimersInOrder ==
  /\ Cardinality(run.timers) <= 1
  /\ run.timers # {} => (run.isPlaying /\ Len(steps) # 0)
  /\ \A t \in run.timers : t.steps = steps

\* C22: in each visualizer, after any sequence of Generate, Start,
\* Pause/Resume, speed-change and timer-tick events at most one interval
\* timer is armed, one is armed only while isPlaying is true and the step
\* sequence is non-empty, the armed timer advances the index over the
\* current step sequence, and Start and Generate replace the step sequence
\* only when no timer is armed.
C22_OneTimerOnlyWhilePlaying ==
  [](TimersInOrder) /\ [][ReplacesSteps => run.timers = {}]_vars

\* C22 witness: the graph visualizer plays at speed 1, its timer armed after
\* a speed change, and has advanced two steps.
C22_Witness ==
  /\ run.visualizer = "GraphVisualizer"
  /\ run.timers # {}
  /\ \A t \in run.timers : t.delay = 100
  /\ run.currentStep >= 2

\* a sorting playback has run to its end: the timer found no next step
SortingPlaybackEnded ==
  /\ run.visualizer = "SortingVisualizer"
  /\ Len(steps) > 0
  /\ ~run.isPlaying
  /\ run.currentStep = Len(steps) - 1

\* C25: when a sorting playback started with Start Sort has run to its end,
\* the Comparisons statistic is the number of compare steps of the step
\* sequence and the Swaps statistic the number of its swap steps.
C25_StatsCountEveryStep ==
  SortingPlaybackEnded =>
    /\ run.stats.comparisons = Cardinality(StepsOfType(steps, "compare"))
    /\ run.stats.swaps = Cardinality(StepsOfType(steps, "swap"))

\* what the playback shows instead: the step at index 0 is never counted
C25_StatsSkipFirstStep ==
  SortingPlaybackEnded =>
    /\ run.stats.comparisons =
         Cardinality(StepsOfType(steps, "compare") \ {1})
    /\ run.stats.swaps = Cardinality(StepsOfType(steps, "swap") \ {1})

-----------------------------------------------------------------------------
(* Further properties of the sorting engine, checked under SortSpec *)

\* C23: in every compare step of mergeSort, the values of the step's array
\* snapshot at its two listed indices are the two values the merge compares
\* at that moment, the head of the left run and the head of the right run.
C23_CompareStepShowsComparedValues ==
  called = "mergeSort" =>
    \A k \in StepsOfType(steps, "compare") :
      << At(steps[k].array, steps[k].indices[1]),
         At(steps[k].array, steps[k].indices[2]) >> = MergeSortRun(arr).compared[k]

\* what holds instead: the snapshot shows the head of the right run at the
\* second index
C23_CompareStepShowsRightHead ==
  called = "mergeSort" =>
    \A k \in StepsOfType(steps, "compare") :
      At(steps[k].array, steps[k].indices[2]) = MergeSortRun(arr).compared[k][2]

-----------------------------------------------------------------------------
(* Further properties of the pathfinding engine, checked under PathSpec *)

\* the step before step k is an explore step whose position is pos
ExploredJustBefore(k, pos) ==
  /\ k > 1
  /\ steps[k - 1].type = "explore"
  /\ steps[k - 1].position = pos

\* the claim as stated: for each of bfs, dijkstra and aStar the step before a
\* path step is an explore step whose position is the end cell
C24_PathStepFollowsExploreOfEnd ==
  called \in PathFns =>
    \A k \in StepsOfType(steps, "path") : ExploredJustBefore(k, endPos)

\* C24: for bfs and dijkstra, whenever the returned sequence contains a path
\* step, the step immediately before it is an explore step whose position is
\* the end cell; aStar reports the path when it selects the end cell, without
\* an explore step for it: no explore step of aStar is of the end cell, and
\* the step before its path step, if there is one, is an explore step.
C24_PathStepAfterExploreAmended ==
  /\ called \in {"bfs", "dijkstra"} =>
       \A k \in StepsOfType(steps, "path") : ExploredJustBefore(k, endPos)
  /\ called = "aStar" =>
       /\ \A k \in StepsOfType(steps, "explore") : steps[k].position # endPos
       /\ \A k \in StepsOfType(steps, "path") :
            k > 1 => steps[k - 1].type = "explore"

\* C24 witness: aStar reports a path after at least two explore steps.
C24_Witness ==
  /\ called = "aStar"
  /\ HasPath
  /\ Len(steps) >= 3

====
